---- MODULE Spec2Model ----
(***************************************************************************)
(* Model of the limiter package (limiter/base.py, limiter/limiter.py):     *)
(* the Limiter dataclass and its derivations, the two admission loops      *)
(* limit_rate / async_limit_rate, the decorator limit_calls, and the       *)
(* token-bucket store they drive.                                          *)
(*                                                                         *)
(* Numbers.  Python's int/float token counts and durations are kept as     *)
(* fixed-point integers: token counts in 1/1000 token, durations in        *)
(* milliseconds.  Rates are whole tokens per second, so rate * age(ms) is  *)
(* a count in 1/1000 token and (consume - tokens) / rate is a duration in  *)
(* ms.  The invariant ExactArithmetic checks that no division truncates.   *)
(*                                                                         *)
(* Time.  time.monotonic() is kept relative: every bucket carries its age  *)
(* (time since last_replenished_at), every sleeper the time left to sleep. *)
(***************************************************************************)
EXTENDS Integers, Sequences, FiniteSets, TLC

\* ---------------------------------------------------------------- base.py
WAKE_UP == 0
CONSUME_TOKENS == 1
RATE == 2
CAPACITY == 3
MS_IN_SEC == 1000

\* fixed-point resolution of token counts and of seconds
Res == MS_IN_SEC

\* ------------------------------------------------------- Python values
PyNone == [kind |-> "None"]
PyBool(b) == [kind |-> "bool", val |-> IF b THEN 1 ELSE 0]
PyInt(n) == [kind |-> "int", val |-> n]
PyRange(a, b, s) == [kind |-> "range", start |-> a, stop |-> b, step |-> s]
PyTuple(t) == [kind |-> "tuple", items |-> t]
PyBytes(s) == [kind |-> "bytes", text |-> s]
PyStr(s) == [kind |-> "str", text |-> s]

\* the members of range(start, stop, step), step > 0
RangeElems(start, stop, step) ==
  IF stop <= start THEN {}
  ELSE {start + (i * step) : i \in 0..((stop - start - 1) \div step)}

\* bool(v)
Truthy(v) ==
  CASE v.kind = "None" -> FALSE
    [] v.kind \in {"bool", "int"} -> v.val # 0
    [] v.kind = "range" -> RangeElems(v.start, v.stop, v.step) # {}
    [] v.kind = "tuple" -> Len(v.items) > 0
    [] v.kind \in {"bytes", "str"} -> v.text # ""
    [] OTHER -> TRUE

DEFAULT_BUCKET == PyBytes("default")
DEFAULT_JITTER == PyBool(FALSE)
DEFAULT_RANGE == PyRange(0, 50, 1)
JITTER_DIRECTIONS == {"add", "sub"}

Min(a, b) == IF a <= b THEN a ELSE b
Max(a, b) == IF a >= b THEN a ELSE b

\* _get_bucket: bytes are the key as they are, text is encoded to bytes,
\* anything else raises TypeError
_get_bucket(name) ==
  CASE name.kind = "bytes" -> [ok |-> TRUE, key |-> name.text]
    [] name.kind = "str" -> [ok |-> TRUE, key |-> name.text]
    [] OTHER -> [ok |-> FALSE, key |-> ""]

\* randrange(...) / units, in ms
JitterAmount(k, units) == (k * Res) \div units

\* a jitter flag taken for a whole second whatever its value
Seconds_of_flag(jitter) == IF jitter.kind = "bool" THEN Res ELSE jitter.val * Res

\* a number given as jitter, in ms: `operation(duration, jitter)` adds or
\* subtracts it as seconds, and False is 0 and True is 1
Seconds(jitter) == jitter.val * Res

\* a slip in the base formula: (consume - tokens) * rate
_get_sleep_duration_times_rate(consume, tokens, rate, jitter, units) ==
  {((consume * Res) - tokens) * rate}

\* _get_sleep_duration: the set of durations (ms) the call may return, one
\* for each draw of choice(JITTER_DIRECTIONS) and of randrange.  consume in
\* tokens, tokens in 1/1000 token, rate in tokens per second.
_get_sleep_duration(consume, tokens, rate, jitter, units) ==
  LET duration == ((consume * Res) - tokens) \div rate
      operation(op, amount) ==
        IF op = "add" THEN duration + amount ELSE duration - amount
      drawn(start, stop, step) ==
        {operation(op, JitterAmount(k, units)) :
           op \in JITTER_DIRECTIONS, k \in RangeElems(start, stop, step)}
  IN  IF jitter.kind \in {"int", "bool"}
        THEN \* case int() | float(): a bool is an int
             {operation(op, Seconds(jitter)) : op \in JITTER_DIRECTIONS}
      ELSE IF jitter.kind \in {"range", "bool"} /\ Truthy(jitter)
        THEN LET r == IF jitter = PyBool(TRUE) THEN DEFAULT_RANGE ELSE jitter
             IN  drawn(r.start, r.stop, r.step)
      ELSE IF jitter.kind = "tuple" /\ Len(jitter.items) = 2
        THEN drawn(jitter.items[1], jitter.items[2], 1)
      ELSE IF jitter.kind = "tuple" /\ Len(jitter.items) = 3
        THEN drawn(jitter.items[1], jitter.items[2], jitter.items[3])
      ELSE {duration}


\* ------------------------------------------------ the Token Store
\* token_bucket.Limiter over token_bucket.MemoryStorage, the third-party
\* store base.py builds.  A store is [rate, capacity, buckets]; a bucket is
\* [present, tokens, age]: tokens as recorded by the last replenish, age the
\* time since then (capped where the refill saturates at capacity).
Keys == {"default", "b"}
NoBucket == [present |-> FALSE, tokens |-> 0, age |-> 0]

\* _get_limiter: TokenBucket(rate, capacity, MemoryStorage())
_get_limiter(rate, capacity) ==
  [rate |-> rate, capacity |-> capacity, buckets |-> [k \in Keys |-> NoBucket]]

\* the age beyond which rate * age >= capacity
AgeCap(st) == ((st.capacity * Res) + st.rate - 1) \div st.rate

\* the refill-adjusted token count of a bucket: what a replenish now would record
Level(st, key) ==
  LET b == st.buckets[key]
  IN  IF b.present THEN Min(st.capacity * Res, b.tokens + (st.rate * b.age))
      ELSE st.capacity * Res

\* MemoryStorage.replenish: a key never seen starts at capacity
replenish(st, key) ==
  [st EXCEPT !.buckets[key] = [present |-> TRUE, tokens |-> Level(st, key), age |-> 0]]

\* TokenBucket.consume(key, num_tokens): replenish, then check and decrement
\* in one atomic step
lim_consume(st, key, num_tokens) ==
  LET r == replenish(st, key)
  IN  IF r.buckets[key].tokens >= num_tokens * Res
        THEN [ok |-> TRUE,
              store |-> [r EXCEPT !.buckets[key].tokens = @ - (num_tokens * Res)]]
        ELSE [ok |-> FALSE, store |-> r]

\* MemoryStorage.get_token_count: the recorded count, no refill applied
get_tokens(st, key) ==
  IF st.buckets[key].present THEN st.buckets[key].tokens ELSE 0

\* --------------------------------------------------------- the Limiter
AttrNames == {"rate", "capacity", "consume", "bucket", "jitter", "units"}

\* a package in which every Limiter gets one and the same store
NewLimiter_one_store(a, limiter, nstores) ==
  [obj |-> [rate |-> a.rate, capacity |-> a.capacity,
            consume |-> IF a.consume = PyNone THEN PyInt(CONSUME_TOKENS) ELSE a.consume,
            bucket |-> a.bucket, limiter |-> 1,
            jitter |-> a.jitter, units |-> a.units],
   fresh |-> limiter = 0]

\* Limiter(...) and __post_init__.  limiter is a store index, or 0 for None;
\* nstores is the number of stores that exist.  Returns the object and
\* whether a store was constructed for it (at index nstores + 1).
NewLimiter(a, limiter, nstores) ==
  [obj |-> [rate |-> a.rate, capacity |-> a.capacity,
            consume |-> IF a.consume = PyNone THEN PyInt(CONSUME_TOKENS) ELSE a.consume,
            bucket |-> a.bucket,
            limiter |-> IF limiter = 0 THEN nstores + 1 ELSE limiter,
            jitter |-> a.jitter, units |-> a.units],
   fresh |-> limiter = 0]

\* the dataclass defaults
DefaultAttrs ==
  [rate |-> RATE, capacity |-> CAPACITY, consume |-> PyNone, bucket |-> DEFAULT_BUCKET,
   jitter |-> DEFAULT_JITTER, units |-> PyInt(MS_IN_SEC)]

\* Limiter.attrs: asdict(self) without the limiter
attrs_of(self) == [n \in AttrNames |-> self[n]]

\* dict | dict
Merge(a, b) ==
  [n \in (DOMAIN a) \cup (DOMAIN b) |-> IF n \in DOMAIN b THEN b[n] ELSE a[n]]


\* ------------------------------------------------------------ callers
\* OS threads, which use limit_rate and time.sleep, and tasks of one asyncio
\* event loop, which use async_limit_rate and asyncio.sleep
Threads == {"t1"}
Tasks == {"a1", "a2"}
Callers == Threads \cup Tasks
NoTask == "none"

\* the wrapped operation and the arguments and errors it is tried with
Args == {1}
Func(a) == a + 10
Errors == {"ValueError"}

\* how many calls the callers make in all
MaxCalls == 2
\* how many calls a caller that has the Limiter to itself makes
SoloCalls == 4
\* how many calls the users of two separate Limiters make in all
PairCalls == 2
\* how many calls are made while Limiters are derived
DeriveCalls == 1
\* how many Limiters exist at most
MaxLimiters == 2
\* the denials and sleeps counted per call (the counters stop there)
MaxTries == 3
\* the time the clock advances in one step when no sleeper is due sooner (ms)
Quantum == MS_IN_SEC \div 2
Unbounded == 0 - 1

\* the arguments of direct uses: limit_rate(limiter, consume, bucket, jitter, units)
\* and limit_calls(limiter, consume, bucket, jitter, units)(func)
FreeArgs ==
  { [consume |-> PyInt(2), bucket |-> PyStr("b"), jitter |-> PyTuple(<<1, 3>>),
     units |-> PyInt(2)],
    [consume |-> PyInt(1), bucket |-> PyInt(7), jitter |-> PyBool(FALSE),
     units |-> PyInt(MS_IN_SEC)] }

\* the Limiters the callers start with
InitAttrs ==
  { Merge(DefaultAttrs, [capacity |-> c, consume |-> k, jitter |-> j]) :
      c \in {1, CAPACITY}, k \in {PyNone}, j \in {PyBool(FALSE), PyInt(1)} }

VARIABLES
  limiters,   \* the Limiter objects, in order of construction
  stores,     \* the Token Stores, in order of construction
  origin,     \* per Limiter: how it was made (observation)
  outcome,    \* the last derivation attempted and how it ended (observation)
  pc,         \* per caller: where it is in its call
  call,       \* per caller: the parameters its admission loop runs with
  wake,       \* per caller: time left to sleep (ms)
  running,    \* the task that holds the event loop, or NoTask
  obs,        \* per caller: what its current call has done so far (observation)
  ledger,     \* per store and bucket: tokens granted and accrued (observation)
  started,    \* calls started so far (observation)
  stray,      \* whether time has passed other than inside a sleep (observation)
  budget,     \* calls that may still start, or Unbounded
  cast        \* the callers that make calls

vars == <<limiters, stores, origin, outcome, pc, call, wake, running, obs, ledger,
          started, stray, budget, cast>>
objVars == <<limiters, origin, outcome>>

NoCall ==
  [shape |-> "", lim |-> 0, store |-> 0, key |-> "", consume |-> 0,
   jitter |-> PyNone, units |-> 0, arg |-> 0]
NoObs ==
  [took |-> 0, spent |-> 0, denials |-> 0, sleeps |-> 0, slept |-> 0, runs |-> 0,
   exits |-> 0, ret |-> 0, thrown |-> "", err |-> "", broke |-> FALSE, delay |-> 0,
   seq |-> 0, tokens |-> 0, rate |-> 0]
\* a keyword argument that was not passed
Absent == [kind |-> "absent"]
NoKwargs == [n \in AttrNames |-> Absent]
NoOverrides == [consume |-> PyNone, bucket |-> PyNone, jitter |-> PyNone, units |-> PyNone]
NoOutcome ==
  [op |-> "", parent |-> 0, result |-> 0, err |-> "", args |-> NoOverrides, kw |-> NoKwargs]
NoEntry == [admits |-> 0, granted |-> 0, taken |-> 0, accrued |-> 0]

audit == budget # Unbounded

\* Limiter(**a, limiter=...) appended to the objects that exist
Construct(a, limiter, how, parent) ==
  LET n == NewLimiter(a, limiter, Len(stores))
  IN  /\ limiters' = Append(limiters, n.obj)
      /\ stores' = IF n.fresh THEN Append(stores, _get_limiter(a.rate, a.capacity))
                   ELSE stores
      /\ ledger' = IF n.fresh THEN Append(ledger, [k \in Keys |-> NoEntry]) ELSE ledger
      /\ origin' = Append(origin, [how |-> how, parent |-> parent])

InitCallers ==
  /\ pc = [c \in Callers |-> "idle"]
  /\ call = [c \in Callers |-> NoCall]
  /\ wake = [c \in Callers |-> 0]
  /\ running = NoTask
  /\ obs = [c \in Callers |-> NoObs]
  /\ started = 0

InitObjectsFrom(attrs) ==
  \E a \in attrs :
    /\ limiters = <<NewLimiter(a, 0, 0).obj>>
    /\ stores = <<_get_limiter(a.rate, a.capacity)>>
    /\ ledger = <<[k \in Keys |-> NoEntry]>>
    /\ origin = <<[how |-> "Limiter", parent |-> 0]>>
    /\ outcome = NoOutcome

\* two callers share the Limiter: a thread and a task, or two tasks
InitObjects == InitObjectsFrom(InitAttrs)

Init ==
  /\ InitObjects
  /\ InitCallers
  /\ budget = MaxCalls
  /\ cast \in {{"t1", "a1"}, {"a1", "a2"}}
  /\ stray = TRUE

\* one caller has the Limiter to itself
InitSolo ==
  /\ InitObjects
  /\ InitCallers
  /\ budget = SoloCalls
  /\ cast \in {{c} : c \in Callers}
  /\ stray = FALSE

\* ------------------------------------------------- entering the loop
\* The arguments the admission loop is entered with, per usage shape:
\*   call   - limiter(func): limit_calls(self, self.consume, self.bucket)
\*   scope  - with limiter: limit_rate(self.limiter, self.consume, self.bucket,
\*            self.jitter, self.units)
\*   direct - the caller's own arguments
Params(shape, self, free) ==
  CASE shape = "call" ->
         [consume |-> self.consume, bucket |-> self.bucket,
          jitter |-> DEFAULT_JITTER, units |-> PyInt(MS_IN_SEC)]
    [] shape = "scope" ->
         [consume |-> self.consume, bucket |-> self.bucket,
          jitter |-> self.jitter, units |-> self.units]
    [] OTHER -> free

CanRun(c) == c \in Threads \/ running = c
CanResume(c) == c \in Threads \/ running = NoTask
Hold(c) == IF c \in Tasks THEN c ELSE running
Release(c) == IF c \in Tasks THEN NoTask ELSE running

\* A caller invokes a wrapped callable, enters a scope, or enters
\* limit_rate / async_limit_rate directly: _get_bucket_limiter resolves the
\* bucket and the store, or raises TypeError.
StartCall(c, shape, l, free, arg) ==
  /\ c \in cast
  /\ pc[c] = "idle"
  /\ budget # 0
  /\ CanResume(c)
  /\ LET p == Params(shape, limiters[l], free)
         b == _get_bucket(p.bucket)
     IN  IF b.ok
           THEN /\ pc' = [pc EXCEPT ![c] = "attempt"]
                /\ call' = [call EXCEPT ![c] =
                     [shape |-> shape, lim |-> l, store |-> limiters[l].limiter,
                      key |-> b.key, consume |-> p.consume.val, jitter |-> p.jitter,
                      units |-> p.units.val, arg |-> arg]]
                /\ obs' = [obs EXCEPT ![c] = [NoObs EXCEPT !.seq = started + 1]]
                /\ running' = Hold(c)
           ELSE /\ pc' = [pc EXCEPT ![c] = "failed"]
                /\ obs' = [obs EXCEPT ![c] = [NoObs EXCEPT !.err = "TypeError"]]
                /\ UNCHANGED <<call, running>>
  /\ budget' = IF audit THEN budget - 1 ELSE budget
  /\ started' = IF audit THEN started + 1 ELSE started
  /\ UNCHANGED <<objVars, stores, wake, ledger, stray, cast>>


\* --------------------------------------- limit_rate / async_limit_rate
\* what a replenish of the bucket adds to its recorded count
Refill(st, key) ==
  IF st.buckets[key].present THEN Level(st, key) - st.buckets[key].tokens ELSE 0

\* the ledger after an admission (admitted) that took `taken` from the bucket
\* and a replenish that added `accrued` to it
Booked(s, key, admitted, amount, taken, accrued) ==
  IF audit
    THEN [ledger EXCEPT ![s][key] =
            [admits |-> @.admits + (IF admitted THEN 1 ELSE 0),
             granted |-> @.granted + (IF admitted THEN amount ELSE 0),
             taken |-> @.taken + taken,
             accrued |-> @.accrued + accrued]]
    ELSE ledger

\* a loop that does not bother to sleep for half a second or less
LeavesLoop_short_delay(sleep_for) == sleep_for <= (Res \div 2)

\* `if sleep_for <= WAKE_UP: break`
LeavesLoop(sleep_for) == sleep_for <= WAKE_UP

\* The two loops, each from its own text.  The head is the loop condition,
\* `while not lim_consume(bucket, consume)`; the body is what follows a
\* denied attempt up to the break or the sleep, for every draw
\* _get_sleep_duration may make.
limit_rate_head(st, key, consume) == lim_consume(st, key, consume)

limit_rate_body(consume, tokens, rate, jitter, units) ==
  {[sleep_for |-> d, leaves |-> LeavesLoop(d), suspend |-> "time.sleep"] :
     d \in _get_sleep_duration(consume, tokens, rate, jitter, units)}

async_limit_rate_head(st, key, consume) == lim_consume(st, key, consume)

\* a suspending loop that leaves the jitter out
async_limit_rate_body_no_jitter(consume, tokens, rate, jitter, units) ==
  {[sleep_for |-> d, leaves |-> LeavesLoop(d), suspend |-> "asyncio.sleep"] :
     d \in _get_sleep_duration(consume, tokens, rate, DEFAULT_JITTER, units)}

async_limit_rate_body(consume, tokens, rate, jitter, units) ==
  {[sleep_for |-> d, leaves |-> LeavesLoop(d), suspend |-> "asyncio.sleep"] :
     d \in _get_sleep_duration(consume, tokens, rate, jitter, units)}

\* a thread runs limit_rate, a task async_limit_rate
LoopHead(c, st, key, consume) ==
  IF c \in Tasks THEN async_limit_rate_head(st, key, consume)
  ELSE limit_rate_head(st, key, consume)
LoopBody(c, consume, tokens, rate, jitter, units) ==
  IF c \in Tasks THEN async_limit_rate_body(consume, tokens, rate, jitter, units)
  ELSE limit_rate_body(consume, tokens, rate, jitter, units)

\* `while not lim_consume(bucket, consume)`: one consumption attempt; the loop
\* ends, and the generator yields, when it returns True
Attempt(c) ==
  /\ pc[c] = "attempt"
  /\ CanRun(c)
  /\ LET k == call[c]
         st == stores[k.store]
         r == LoopHead(c, st, k.key, k.consume)
     IN  /\ stores' = [stores EXCEPT ![k.store] = r.store]
         /\ pc' = [pc EXCEPT ![c] = IF r.ok THEN "admitted" ELSE "read"]
         /\ obs' = [obs EXCEPT
               ![c].took = IF r.ok THEN @ + 1 ELSE @,
               ![c].spent = @ + (Level(st, k.key) - Level(r.store, k.key)),
               ![c].denials = IF r.ok \/ ~audit THEN @ ELSE Min(MaxTries, @ + 1)]
         /\ ledger' = Booked(k.store, k.key, r.ok, k.consume * Res,
                             Level(st, k.key) - Level(r.store, k.key), Refill(st, k.key))
  /\ UNCHANGED <<objVars, call, wake, running, started, stray, budget, cast>>

\* The loop body after a denied attempt: read the token count, compute the
\* delay, then either leave the loop by `break` (the generator yields) or
\* sleep: time.sleep blocks the thread, asyncio.sleep suspends the task.
Backoff(c) ==
  /\ pc[c] = "read"
  /\ CanRun(c)
  /\ LET k == call[c]
         st == stores[k.store]
         tokens == get_tokens(st, k.key)
     IN  \E b \in LoopBody(c, k.consume, tokens, st.rate, k.jitter, k.units) :
         LET sleep_for == b.sleep_for
         IN
           IF b.leaves
             THEN /\ pc' = [pc EXCEPT ![c] = "admitted"]
                  /\ obs' = [obs EXCEPT ![c].broke = TRUE, ![c].delay = sleep_for]
                  /\ ledger' = Booked(k.store, k.key, TRUE, k.consume * Res, 0, 0)
                  /\ UNCHANGED <<wake, running>>
             ELSE /\ pc' = [pc EXCEPT ![c] = "sleeping"]
                  /\ wake' = [wake EXCEPT ![c] = sleep_for]
                  /\ obs' = [obs EXCEPT ![c].delay = sleep_for,
                                        ![c].slept = sleep_for,
                                        ![c].sleeps = IF audit THEN Min(MaxTries, @ + 1) ELSE @]
                  /\ running' = Release(c)
                  /\ UNCHANGED ledger
  /\ UNCHANGED <<objVars, stores, call, started, stray, budget, cast>>

\* a loop that, after the sleep, polls the token count instead of trying to
\* consume again
AfterSleep_polls == "read"

\* where the loop goes after `sleep(sleep_for)`: back to its condition,
\* `while not lim_consume(bucket, consume)`
AfterSleep == "attempt"

\* the sleep is over: back to the head of the loop
Wake(c) ==
  /\ pc[c] = "sleeping"
  /\ wake[c] = 0
  /\ CanResume(c)
  /\ pc' = [pc EXCEPT ![c] = AfterSleep]
  /\ running' = Hold(c)
  /\ UNCHANGED <<objVars, stores, call, wake, obs, ledger, started, stray, budget, cast>>

\* a loop that swallows the cancellation and goes on
AfterCancel_swallowed == "attempt"

\* where CancelledError, raised at `await aiosleep(sleep_for)`, takes the task
AfterCancel == "cancelled"

\* A task is cancelled while suspended in asyncio.sleep: CancelledError is
\* raised at the await, nothing in async_limit_rate catches it, and it leaves
\* __aenter__ before the generator yields.
Cancel(c) ==
  /\ c \in Tasks
  /\ pc[c] = "sleeping"
  /\ running = NoTask
  /\ pc' = [pc EXCEPT ![c] = AfterCancel]
  /\ wake' = [wake EXCEPT ![c] = 0]
  /\ obs' = [obs EXCEPT ![c].err = "CancelledError"]
  /\ UNCHANGED <<objVars, stores, call, running, ledger, started, stray, budget, cast>>

\* ---------------------------------------------- the protected operation
\* a wrapper that drops the arguments: func()
PassedArgs_dropped(k) == 0

\* what new_func / new_coroutine_func pass on: func(*args, **kwargs)
PassedArgs(k) == k.arg

\* an exit that hands the tokens of the admission back
exit_stores_refund(sts, k) ==
  [sts EXCEPT ![k.store].buckets[k.key].tokens = @ + (k.consume * Res)]

\* an exit that clears the bucket the scope drew from
exit_stores_cleanup(sts, k) == [sts EXCEPT ![k.store].buckets[k.key] = NoBucket]

\* __exit__ / __aexit__ and the end of the generator after its yield: what
\* they do to the stores
exit_stores(sts, k) == sts

\* the error that leaves the with statement when its body raised e: the
\* generator does not catch it and __exit__ returns None
Propagated(e) == e

LevelOf(sts, k) == Level(sts[k.store], k.key)

\* `yield lim_wrapper`: the body of the with statement starts
RunBody(c) ==
  /\ pc[c] = "admitted"
  /\ CanRun(c)
  /\ pc' = [pc EXCEPT ![c] = "body"]
  /\ obs' = [obs EXCEPT ![c].runs = @ + 1]
  /\ UNCHANGED <<objVars, stores, call, wake, running, ledger, started, stray, budget, cast>>

\* the operation returns: the with statement exits, the wrapper returns the result
BodyReturn(c) ==
  /\ pc[c] = "body"
  /\ CanRun(c)
  /\ pc' = [pc EXCEPT ![c] = "returned"]
  /\ stores' = exit_stores(stores, call[c])
  /\ obs' = [obs EXCEPT ![c].ret = Func(PassedArgs(call[c])), ![c].exits = @ + 1,
                        ![c].spent = @ + (LevelOf(stores, call[c]) - LevelOf(stores', call[c]))]
  /\ running' = Release(c)
  /\ UNCHANGED <<objVars, call, wake, ledger, started, stray, budget, cast>>

\* the operation raises: the with statement exits, nothing catches the error
BodyRaise(c, e) ==
  /\ pc[c] = "body"
  /\ CanRun(c)
  /\ pc' = [pc EXCEPT ![c] = "raised"]
  /\ stores' = exit_stores(stores, call[c])
  /\ obs' = [obs EXCEPT ![c].thrown = e, ![c].err = Propagated(e), ![c].exits = @ + 1,
                        ![c].spent = @ + (LevelOf(stores, call[c]) - LevelOf(stores', call[c]))]
  /\ running' = Release(c)
  /\ UNCHANGED <<objVars, call, wake, ledger, started, stray, budget, cast>>

\* the caller has its result or its error and is free to call again
Finish(c) ==
  /\ pc[c] \in {"returned", "raised", "cancelled", "failed"}
  /\ pc' = [pc EXCEPT ![c] = "idle"]
  /\ call' = [call EXCEPT ![c] = NoCall]
  /\ obs' = [obs EXCEPT ![c] = NoObs]
  /\ UNCHANGED <<objVars, stores, wake, running, ledger, started, stray, budget, cast>>

\* ------------------------------------------------------------- time
Sleeping(c) == pc[c] = "sleeping" /\ wake[c] > 0
TickSteps == {Quantum} \cup {wake[c] : c \in {x \in Callers : Sleeping(x)}}

\* time.monotonic() advances by d
Tick(d) ==
  /\ d \in TickSteps
  /\ wake' = [c \in Callers |-> Max(0, wake[c] - d)]
  /\ stores' = [s \in DOMAIN stores |->
       [stores[s] EXCEPT !.buckets = [k \in Keys |->
          IF @[k].present THEN [@[k] EXCEPT !.age = Min(AgeCap(stores[s]), @ + d)]
          ELSE @[k]]]]
  /\ stray' = (stray \/ ~(\E c \in Callers : Sleeping(c) /\ wake[c] >= d))
  /\ UNCHANGED <<objVars, pc, call, running, obs, ledger, started, budget, cast>>

\* ------------------------------------------------- the delay as a function
\* the arguments _get_sleep_duration is tried with: token counts in 1/1000
\* token, chosen so that no division truncates
SleepConsumes == {1, 2}
SleepTokens == {0, MS_IN_SEC \div 2, MS_IN_SEC, CAPACITY * MS_IN_SEC}
SleepRates == {1, RATE}
SleepJitters ==
  {PyNone, PyBool(FALSE), PyBool(TRUE), PyInt(1), PyRange(0, 3, 1), PyTuple(<<1, 3>>),
   PyTuple(<<0, 4, 2>>)}
SleepUnits == {2, MS_IN_SEC}

\* a caller calls _get_sleep_duration(consume, tokens, rate, jitter, units)
\* and keeps what it returned, for one draw of the direction and the amount
Compute(c, consume, tokens, rate, jitter, units) ==
  /\ c \in cast
  /\ pc[c] = "idle"
  /\ \E d \in _get_sleep_duration(consume, tokens, rate, jitter, units) :
       /\ pc' = [pc EXCEPT ![c] = "computed"]
       /\ call' = [call EXCEPT ![c] =
            [NoCall EXCEPT !.shape = "function", !.consume = consume,
                           !.jitter = jitter, !.units = units]]
       /\ obs' = [obs EXCEPT ![c] =
            [NoObs EXCEPT !.delay = d, !.tokens = tokens, !.rate = rate]]
  /\ UNCHANGED <<objVars, stores, wake, running, ledger, started, stray, budget, cast>>

\* the caller drops the value
Return(c) ==
  /\ pc[c] = "computed"
  /\ pc' = [pc EXCEPT ![c] = "idle"]
  /\ call' = [call EXCEPT ![c] = NoCall]
  /\ obs' = [obs EXCEPT ![c] = NoObs]
  /\ UNCHANGED <<objVars, stores, wake, running, ledger, started, stray, budget, cast>>

\* ------------------------------------------------------------ derivation
\* isinstance(v, Tokens)
IsTokens(v) == v.kind \in {"int", "bool"}

\* dict | kwargs, and dict |= kwargs
Update(a, kw) ==
  [n \in AttrNames |->
     IF kw[n] = Absent THEN a[n]
     ELSE IF n \in {"rate", "capacity"} THEN kw[n].val ELSE kw[n]]

\* Limiter._get_new_attrs
_get_new_attrs(self, attrs, bucket, consume, jitter, units) ==
  LET a0 == attrs_of(self)
      a1 == IF Truthy(consume) THEN [a0 EXCEPT !.consume = consume] ELSE a0
      a2 == IF Truthy(bucket) THEN [a1 EXCEPT !.bucket = bucket] ELSE a1
      a3 == IF Truthy(jitter) THEN [a2 EXCEPT !.jitter = jitter] ELSE a2
      a4 == IF Truthy(units) THEN [a3 EXCEPT !.units = units] ELSE a3
  IN  Update(a4, attrs)

\* a __call__ without the check for rate and capacity among the overrides
CallError_rate_allowed(func_or_consume, attrs) ==
  IF Truthy(func_or_consume) /\ ~IsTokens(func_or_consume) THEN "TypeError" ELSE ""

\* what Limiter.__call__ raises for a first argument that is not callable
CallError(func_or_consume, attrs) ==
  IF Truthy(func_or_consume) /\ ~IsTokens(func_or_consume) THEN "TypeError"
  ELSE IF attrs.rate # Absent \/ attrs.capacity # Absent THEN "ValueError"
  ELSE ""

\* the values the overrides are tried with
ConsumeArgs == {PyNone, PyInt(0), PyInt(2), PyStr("x"), PyStr("")}
BucketArgs == {PyNone, PyBytes(""), PyInt(7)}
JitterArgs == {PyNone, PyBool(FALSE)}
UnitsArgs == {PyNone, PyInt(0)}
\* at most one of the four is passed in a call
OverrideArgs ==
  {a \in [consume : ConsumeArgs, bucket : BucketArgs, jitter : JitterArgs, units : UnitsArgs] :
     Cardinality({n \in DOMAIN a : a[n] # PyNone}) <= 1}
CallKwargs == {NoKwargs, [NoKwargs EXCEPT !.rate = PyInt(1)],
               [NoKwargs EXCEPT !.capacity = PyInt(1)]}
NewKwargs == {NoKwargs, [NoKwargs EXCEPT !.bucket = PyStr("b")],
              [NoKwargs EXCEPT !.rate = PyInt(1)]}

\* Limiter.__call__ with a first argument that is not callable: the derived
\* Limiter is built on the store of the original
Derive(l, func_or_consume, bucket, jitter, units, attrs) ==
  LET self == limiters[l]
      err == CallError(func_or_consume, attrs)
      args == [consume |-> func_or_consume, bucket |-> bucket,
               jitter |-> jitter, units |-> units]
  IN  /\ \A c \in Callers : pc[c] = "idle"
      /\ IF err = ""
           THEN /\ Len(limiters) < MaxLimiters
                /\ Construct(_get_new_attrs(self, attrs, bucket, func_or_consume, jitter, units),
                             self.limiter, "call", l)
                /\ outcome' = [op |-> "call", parent |-> l, result |-> Len(limiters) + 1,
                               err |-> "", args |-> args, kw |-> attrs]
           ELSE /\ outcome' = [op |-> "call", parent |-> l, result |-> 0,
                               err |-> err, args |-> args, kw |-> attrs]
                /\ UNCHANGED <<limiters, stores, ledger, origin>>
      /\ UNCHANGED <<pc, call, wake, running, obs, started, stray, budget, cast>>

\* Limiter.new: Limiter(**(self.attrs | attrs)), and attrs has no limiter
New(l, attrs) ==
  /\ \A c \in Callers : pc[c] = "idle"
  /\ Len(limiters) < MaxLimiters
  /\ Construct(Update(attrs_of(limiters[l]), attrs), 0, "new", l)
  /\ outcome' = [op |-> "new", parent |-> l, result |-> Len(limiters) + 1,
                 err |-> "", args |-> NoOverrides, kw |-> attrs]
  /\ UNCHANGED <<pc, call, wake, running, obs, started, stray, budget, cast>>

Next ==
  \/ \E c \in Callers, l \in DOMAIN limiters :
       \/ \E arg \in Args : StartCall(c, "call", l, NoCall, arg)
       \/ StartCall(c, "scope", l, NoCall, 0)
       \/ \E free \in FreeArgs : StartCall(c, "direct", l, free, 0)
  \/ \E c \in Callers : Attempt(c)
  \/ \E c \in Callers : Backoff(c)
  \/ \E c \in Callers : Wake(c)
  \/ \E c \in Callers : Cancel(c)
  \/ \E c \in Callers : RunBody(c)
  \/ \E c \in Callers : BodyReturn(c)
  \/ \E c \in Callers, e \in Errors : BodyRaise(c, e)
  \/ \E c \in Callers : Finish(c)
  \/ \E d \in TickSteps : Tick(d)

Spec == Init /\ [][Next]_vars
SpecSolo == InitSolo /\ [][Next]_vars

\* Limiters are derived from one whose every field differs from the falsy
\* overrides, between the scopes a thread enters; no time passes, so every
\* scope is admitted from the tokens the stores hold
InitDerive ==
  /\ InitObjectsFrom({Merge(DefaultAttrs, [jitter |-> PyInt(1)])})
  /\ InitCallers
  /\ budget = DeriveCalls
  /\ cast = {"t1"}
  /\ stray = FALSE

NextDerive ==
  \/ \E c \in Callers, l \in DOMAIN limiters : StartCall(c, "scope", l, NoCall, 0)
  \/ \E c \in Callers : Attempt(c)
  \/ \E c \in Callers : RunBody(c)
  \/ \E c \in Callers : BodyReturn(c)
  \/ \E c \in Callers : Finish(c)
  \/ \E l \in DOMAIN limiters, a \in OverrideArgs, attrs \in CallKwargs :
       Derive(l, a.consume, a.bucket, a.jitter, a.units, attrs)
  \/ \E l \in DOMAIN limiters, attrs \in NewKwargs : New(l, attrs)

SpecDerive == InitDerive /\ [][NextDerive]_vars

\* two Limiters constructed one after the other, each by Limiter(capacity=1),
\* used in turn by one caller
InitPair ==
  /\ \E a \in {Merge(DefaultAttrs, [capacity |-> 1])} :
       /\ limiters = <<NewLimiter(a, 0, 0).obj, NewLimiter(a, 0, 1).obj>>
       /\ stores = <<_get_limiter(a.rate, a.capacity), _get_limiter(a.rate, a.capacity)>>
  /\ ledger = <<[k \in Keys |-> NoEntry], [k \in Keys |-> NoEntry]>>
  /\ origin = <<[how |-> "Limiter", parent |-> 0], [how |-> "Limiter", parent |-> 0]>>
  /\ outcome = NoOutcome
  /\ InitCallers
  /\ budget = PairCalls
  /\ cast \in {{"t1"}, {"a1"}}
  /\ stray = TRUE

SpecPair == InitPair /\ [][Next]_vars

\* one thread computes delays, again and again
InitSleep ==
  /\ InitObjectsFrom({DefaultAttrs})
  /\ InitCallers
  /\ budget = Unbounded
  /\ cast = {"t1"}
  /\ stray = FALSE

NextSleep ==
  \/ \E c \in Callers, consume \in SleepConsumes, tokens \in SleepTokens,
         rate \in SleepRates, jitter \in SleepJitters, units \in SleepUnits :
       Compute(c, consume, tokens, rate, jitter, units)
  \/ \E c \in Callers : Return(c)

SpecSleep == InitSleep /\ [][NextSleep]_vars

\* fixed-point arithmetic is exact: no duration computed is truncated
ExactArithmetic ==
  \A c \in Callers :
    pc[c] \in {"attempt", "read", "sleeping"} =>
      ((call[c].consume * Res) - get_tokens(stores[call[c].store], call[c].key))
         % stores[call[c].store].rate = 0


\* ================================================================ claims
InLoop(c) == pc[c] \in {"attempt", "read", "sleeping"}
PastLoop(c) == pc[c] \in {"admitted", "body", "returned", "raised"}

\* C1 (as claimed): whenever the protected body may run or has run, exactly
\* one consumption attempt of that admission returned True and exactly
\* `consume` tokens were taken from the bucket for it.
C1_AdmissionConsumedOnce ==
  \A c \in Callers :
    PastLoop(c) => /\ obs[c].took = 1
                   /\ obs[c].spent = call[c].consume * Res

\* C2 (as claimed): the step the loop takes when the delay computed after a
\* denied attempt is <= WAKE_UP leads to another consumption attempt, with no
\* sleep in between, and does not leave the loop.
C2_RetryWithoutSleep ==
  [][\A c \in Callers :
       (pc[c] = "read" /\ pc'[c] # "read" /\ obs'[c].delay <= WAKE_UP)
         => (pc'[c] = "attempt" /\ obs'[c].sleeps = obs[c].sleeps)]_vars

\* C3 (as claimed): no bucket's token count drops below 0, and the tokens
\* granted to admitted callers never exceed the initial capacity plus the
\* tokens accrued by refill.
C3_NoOverspend ==
  \A s \in DOMAIN stores, k \in Keys :
    /\ stores[s].buckets[k].tokens >= 0
    /\ ledger[s][k].granted <= (stores[s].capacity * Res) + ledger[s][k].accrued


\* The scenario of C4 as caller c lives it: the store has rate 2 and
\* capacity 3, the call consumes 1 token with no jitter, time has passed only
\* inside sleeps, and every earlier call was admitted on this bucket by
\* consuming 1 token.
BackToBack(c) ==
  /\ InLoop(c) \/ PastLoop(c)
  /\ ~stray
  /\ LET k == call[c]
         e == ledger[k.store][k.key]
         mine == IF PastLoop(c) THEN 1 ELSE 0
     IN  /\ stores[k.store].rate = RATE
         /\ stores[k.store].capacity = CAPACITY
         /\ k.consume = CONSUME_TOKENS
         /\ ~Truthy(k.jitter)
         /\ e.admits - mine = obs[c].seq - 1
         /\ e.granted - (mine * k.consume * Res) = (obs[c].seq - 1) * Res
         /\ e.taken - obs[c].spent = (obs[c].seq - 1) * Res

\* C4: back to back on a fresh Limiter(rate=2, capacity=3), consume 1, no
\* jitter, one caller: each of the first three admissions succeeds on its
\* first attempt without a sleep; the fourth is denied once, sleeps 0.5 s
\* once, and is then admitted by a successful consumption.
C4_ThreeThenSleepHalfSecond ==
  \A c \in Callers :
    BackToBack(c) =>
      /\ obs[c].seq <= CAPACITY =>
           \/ pc[c] = "attempt" /\ obs[c].denials = 0
           \/ /\ PastLoop(c)
              /\ obs[c].denials = 0 /\ obs[c].sleeps = 0
              /\ obs[c].took = 1 /\ ~obs[c].broke
      /\ obs[c].seq = CAPACITY + 1 =>
           /\ obs[c].denials <= 1 /\ obs[c].sleeps <= 1
           /\ pc[c] = "read" => obs[c].denials = 1 /\ obs[c].sleeps = 0
           /\ pc[c] = "sleeping" => obs[c].sleeps = 1 /\ obs[c].slept = Res \div RATE
           /\ PastLoop(c) =>
                /\ obs[c].denials = 1 /\ obs[c].sleeps = 1
                /\ obs[c].slept = Res \div RATE
                /\ obs[c].took = 1 /\ ~obs[c].broke

C4_Witness ==
  \E c \in Callers :
    /\ BackToBack(c)
    /\ obs[c].seq = CAPACITY + 1
    /\ pc[c] = "admitted"
    /\ obs[c].sleeps = 1 /\ obs[c].took = 1

\* C5: an invocation of a wrapped callable starts the operation only after
\* its admission loop has ended, runs it exactly once with the arguments of
\* the invocation, and returns the operation's result.
C5_WrappedRunsAfterLoopOnce ==
  \A c \in Callers :
    call[c].shape \in {"call", "direct"} =>
      /\ InLoop(c) => obs[c].runs = 0
      /\ pc[c] = "admitted" => obs[c].runs = 0
      /\ pc[c] \in {"body", "returned", "raised"} => obs[c].runs = 1
      /\ pc[c] = "returned" => obs[c].ret = Func(call[c].arg)

C5_Witness ==
  \E c \in Callers :
    /\ call[c].shape = "call"
    /\ pc[c] = "returned"
    /\ obs[c].sleeps >= 1
    /\ obs[c].ret = Func(call[c].arg)

\* C6: when the wrapped or scoped operation raises after admission, the
\* caller gets that very error, the operation has run once (no retry), and the
\* tokens taken for the admission stay taken.
C6_RaiseKeepsTokensSpent ==
  \A c \in Callers :
    pc[c] = "raised" =>
      /\ obs[c].err = obs[c].thrown /\ obs[c].err \in Errors
      /\ obs[c].runs = 1 /\ obs[c].exits = 1
      /\ obs[c].spent = obs[c].took * call[c].consume * Res

C6_Witness ==
  \E c \in Callers :
    /\ pc[c] = "raised"
    /\ obs[c].took = 1
    /\ obs[c].spent = call[c].consume * Res
    /\ LevelOf(stores, call[c]) = (stores[call[c].store].capacity - call[c].consume) * Res

\* C7: a task cancelled in the backoff sleep of async_limit_rate leaves the
\* loop with CancelledError, its protected body never runs, and its call has
\* taken no tokens from the bucket.
C7_CancelledTookNothing ==
  \A c \in Callers :
    obs[c].err = "CancelledError" =>
      /\ pc[c] = "cancelled"
      /\ obs[c].runs = 0 /\ obs[c].took = 0 /\ obs[c].spent = 0

C7_Witness ==
  \E c \in Tasks :
    /\ pc[c] = "cancelled"
    /\ obs[c].sleeps >= 1
    /\ obs[c].err = "CancelledError"


\* ------------------------------------------------------------ liveness
\* A thread and a task that call again and again, without end and without
\* the counting of calls.
InitLive ==
  /\ InitObjectsFrom({Merge(DefaultAttrs, [capacity |-> 1])})
  /\ InitCallers
  /\ budget = Unbounded
  /\ cast = {"t1", "a1"}
  /\ stray = TRUE

\* what caller c does once it is in a call
Step(c) ==
  \/ Attempt(c)
  \/ Backoff(c)
  \/ Wake(c)
  \/ RunBody(c)
  \/ BodyReturn(c)
  \/ \E e \in Errors : BodyRaise(c, e)
  \/ Finish(c)

\* Fair scheduling and advancing time: a thread that can run, and a task the
\* event loop can resume, is run; the clock keeps moving.  Nothing obliges a
\* caller to start a call, and nothing obliges anyone to cancel a task.
Fairness ==
  /\ \A c \in Callers : WF_vars(Step(c))
  /\ WF_vars(\E d \in TickSteps : Tick(d))

SpecLive == InitLive /\ [][Next]_vars /\ Fairness

\* a call the claim is about: in the loop, asking for no more than the capacity
Waiting(c) == InLoop(c) /\ call[c].consume <= stores[call[c].store].capacity
Through(c) == PastLoop(c) \/ pc[c] = "cancelled"

\* C8 (as claimed): under fair scheduling and advancing time every call in
\* the admission loop with consume <= capacity is admitted in the end (unless
\* it is cancelled), whatever the other callers do.
C8_EveryCallAdmitted ==
  \A c \in Callers : Waiting(c) ~> Through(c)

\* C8 (amended): ... is admitted in the end provided the other callers stop
\* entering the loop from some point on.
C8_AdmittedOnceOthersRest ==
  \A c \in Callers :
    (<>[](\A d \in Callers \ {c} : pc[d] = "idle")) => (Waiting(c) ~> Through(c))

C8_Witness ==
  \E c \in Callers :
    /\ pc[c] = "admitted"
    /\ obs[c].took = 1
    /\ obs[c].slept > 0
    /\ \A d \in Callers \ {c} : pc[d] = "idle"


\* ------------------------------------------------------------ derivation claims
\* the last derivation produced a Limiter
Derived == outcome.result # 0
Original == limiters[outcome.parent]
Result == limiters[outcome.result]
Overridden(n) == outcome.kw[n] # Absent

\* C9: for both derivation operations (calling the Limiter with overrides,
\* and Limiter.new), the derived Limiter holds the store of the original
\* when neither rate nor capacity is overridden, and a store that no Limiter
\* before it holds when rate is overridden.
C9_StoreSharedUnlessRateOverridden ==
  Derived =>
    /\ (~Overridden("rate") /\ ~Overridden("capacity")) =>
         Result.limiter = Original.limiter
    /\ Overridden("rate") =>
         \A i \in 1..(outcome.result - 1) : limiters[i].limiter # Result.limiter

\* C10: calling a Limiter with overrides yields a Limiter in which every
\* field that was passed has the value passed, 0, False and the empty bucket
\* name included, and every other field has the value of the original.
C10_SuppliedReplaceOthersInherited ==
  (Derived /\ outcome.op = "call"
     /\ (outcome.args.consume = PyNone \/ IsTokens(outcome.args.consume))) =>
    /\ \A n \in DOMAIN outcome.args :
         Result[n] = IF outcome.args[n] # PyNone THEN outcome.args[n] ELSE Original[n]
    /\ Result.rate = Original.rate
    /\ Result.capacity = Original.capacity

\* C11: calling a Limiter with rate or capacity among the overrides fails
\* with an error, adds no Limiter, and leaves every Limiter that exists (the
\* original among them) and every store's bucket state as they were.
C11_RateCapacityOverrideRejected ==
  [][(outcome'.op = "call" /\ pc' = pc
        /\ (outcome'.kw.rate # Absent \/ outcome'.kw.capacity # Absent))
       => /\ outcome'.err \in {"ValueError", "TypeError"}
          /\ outcome'.result = 0
          /\ limiters' = limiters
          /\ stores' = stores]_vars

\* the override was refused on a Limiter whose bucket had been drawn from
C11_Witness ==
  /\ outcome.op = "call" /\ outcome.err = "ValueError"
  /\ outcome.kw.rate # Absent
  /\ outcome.result = 0
  /\ _get_bucket(Original.bucket).ok
  /\ LET st == stores[Original.limiter]
         key == _get_bucket(Original.bucket).key
     IN  st.buckets[key].present /\ st.buckets[key].tokens < st.capacity * Res


\* ------------------------------------------------------------ delay claims
Computed(c) == pc[c] = "computed"
\* (consume - tokens) / rate, in ms, for what caller c passed
BaseDuration(c) == ((call[c].consume * Res) - obs[c].tokens) \div obs[c].rate

\* C12: with jitter=False, the default, _get_sleep_duration returns exactly
\* (consume - tokens) / rate, for every consume, tokens and rate > 0 and for
\* both directions the jitter may be drawn in.
C12_NoJitterExactDuration ==
  \A c \in Callers :
    (Computed(c) /\ call[c].jitter = DEFAULT_JITTER) =>
      /\ obs[c].delay = BaseDuration(c)
      /\ obs[c].delay * obs[c].rate = (call[c].consume * Res) - obs[c].tokens

C12_Witness ==
  \E c \in Callers :
    /\ Computed(c) /\ call[c].jitter = DEFAULT_JITTER
    /\ call[c].consume = 2 /\ obs[c].tokens = MS_IN_SEC /\ obs[c].rate = RATE
    /\ obs[c].delay = Res \div RATE

\* C13 (as claimed): with jitter=True, _get_sleep_duration returns the base
\* duration plus or minus k / units for some k of the default range 0..49,
\* and perturbs by no other magnitude.
C13_TrueDrawsFromDefaultRange ==
  \A c \in Callers :
    (Computed(c) /\ call[c].jitter = PyBool(TRUE)) =>
      \E k \in RangeElems(DEFAULT_RANGE.start, DEFAULT_RANGE.stop, DEFAULT_RANGE.step) :
        \/ obs[c].delay = BaseDuration(c) + JitterAmount(k, call[c].units)
        \/ obs[c].delay = BaseDuration(c) - JitterAmount(k, call[c].units)


\* ------------------------------------------------------------ frame claims
\* the Limiter a Limiter was derived from by calls, back to the one that was
\* constructed with a store of its own
RECURSIVE Root(_)
Root(l) == IF origin[l].how = "call" THEN Root(origin[l].parent) ELSE l

\* caller c makes a consumption attempt in this step
Attempts(c) == pc[c] = "attempt" /\ pc'[c] # "attempt"

\* C14: a consumption attempt, successful or denied, on bucket b of store S
\* changes no bucket but b of S: not the buckets of other names in S, not
\* the buckets of another store, and so no bucket of a Limiter that was
\* constructed independently of the one the attempt goes through.
C14_AttemptTouchesOneBucket ==
  [][\A c \in Callers :
       Attempts(c) =>
         /\ DOMAIN stores' = DOMAIN stores
         /\ \A s \in DOMAIN stores, k \in Keys :
              (s # call[c].store \/ k # call[c].key) =>
                stores'[s].buckets[k] = stores[s].buckets[k]
         /\ \A m \in DOMAIN limiters :
              Root(m) # Root(call[c].lim) =>
                stores'[limiters[m].limiter].buckets = stores[limiters[m].limiter].buckets]_vars

\* an attempt was made on a bucket while the bucket of the same name in the
\* other store had been drawn from
C14_Witness ==
  \E c \in Callers :
    /\ pc[c] \in {"admitted", "read"}
    /\ \E s \in DOMAIN stores :
         /\ s # call[c].store
         /\ stores[s].buckets[call[c].key].present
         /\ stores[s].buckets[call[c].key].tokens < stores[s].capacity * Res


\* ------------------------------------------------------------ the two loops
\* a step of a loop without the name of the primitive it suspends with
Primitive(steps) == {b.suspend : b \in steps}
Unsuspended(steps) == {[sleep_for |-> b.sleep_for, leaves |-> b.leaves] : b \in steps}

\* C15: limit_rate and async_limit_rate are one state machine.  In every
\* state a caller of either loop reaches, the other loop makes the same
\* consumption attempt with the same answer and the same effect on the
\* store, and after a denial reads the same count and, draw for draw,
\* computes the same delay and takes the same way (break or sleep): they
\* differ in the primitive they sleep with and in nothing else.
C15_BlockingAndSuspendingAgree ==
  \A c \in Callers :
    LET k == call[c]
        st == stores[k.store]
    IN  /\ pc[c] = "attempt" =>
             limit_rate_head(st, k.key, k.consume) = async_limit_rate_head(st, k.key, k.consume)
        /\ pc[c] = "read" =>
             LET sync == limit_rate_body(k.consume, get_tokens(st, k.key), st.rate,
                                         k.jitter, k.units)
                 async == async_limit_rate_body(k.consume, get_tokens(st, k.key), st.rate,
                                                k.jitter, k.units)
             IN  /\ Unsuspended(sync) = Unsuspended(async)
                 /\ Primitive(sync) = {"time.sleep"}
                 /\ Primitive(async) = {"asyncio.sleep"}

\* a thread and a task, denied on the same bucket with the same arguments
\* and a jitter, sleep for the same time
C15_Witness ==
  \E t \in Threads, a \in Tasks :
    /\ pc[t] = "sleeping" /\ pc[a] = "sleeping"
    /\ call[t].store = call[a].store /\ call[t].key = call[a].key
    /\ call[t].consume = call[a].consume
    /\ call[t].jitter = call[a].jitter /\ Truthy(call[t].jitter)
    /\ call[t].units = call[a].units
    /\ obs[t].slept = obs[a].slept /\ obs[t].slept > 0


\* ------------------------------------------------------------ misuse claims
\* C16 (as claimed): a first argument of Limiter.__call__ that is neither
\* callable nor a token amount makes the call fail, truthy or falsy: no
\* derived Limiter is returned for it.
C16_NonTokenArgumentRejected ==
  (outcome.op = "call" /\ outcome.args.consume # PyNone
     /\ ~IsTokens(outcome.args.consume)) =>
    (outcome.err # "" /\ outcome.result = 0)

\* C17 (as claimed): a bucket name that is neither bytes nor text fails the
\* wrap or scope before any consumption attempt, with no token taken, and
\* fails already the construction or derivation of a Limiter with such a
\* name: no Limiter with such a name exists.
C17_BadBucketFailsAtConstruction ==
  /\ \A c \in Callers :
       pc[c] = "failed" => (obs[c].took = 0 /\ obs[c].spent = 0 /\ obs[c].runs = 0)
  /\ \A l \in DOMAIN limiters : _get_bucket(limiters[l].bucket).ok


\* ------------------------------------------------------------ scope exit
\* the scope of caller c ends in this step
Exits(c) == call[c].shape = "scope" /\ pc[c] = "body" /\ pc'[c] # "body"

\* C18: the end of a scope (__exit__ / __aexit__), on normal exit and when
\* the block raises, runs once per begin and leaves every bucket of every
\* store as it was: nothing is refunded, no bucket state is removed; an
\* error raised by the block leaves the scope as it is.
C18_ScopeExitIsNoOp ==
  [][\A c \in Callers :
       /\ Exits(c) =>
            /\ pc'[c] \in {"returned", "raised"}
            /\ obs[c].exits = 0 /\ obs'[c].exits = 1
            /\ stores' = stores
            /\ pc'[c] = "raised" =>
                 (obs'[c].err = obs'[c].thrown /\ obs'[c].err \in Errors)
       /\ (call[c].shape = "scope" /\ pc[c] \in {"returned", "raised"}) =>
            obs[c].exits = 1]_vars

\* a scope that had to sleep for its token has ended with the error of its block
C18_Witness ==
  \E c \in Callers :
    /\ call[c].shape = "scope"
    /\ pc[c] = "raised"
    /\ obs[c].exits = 1 /\ obs[c].sleeps >= 1
    /\ stores[call[c].store].buckets[call[c].key].present
    /\ stores[call[c].store].buckets[call[c].key].tokens < stores[call[c].store].capacity * Res


\* ------------------------------------------------------------ usage shapes
\* C19 (as claimed): a call of limiter(func) and a scope of the same Limiter
\* run the admission loop with the same parameters, the consume, bucket,
\* jitter and units of the Limiter, and so compute the same delays.
C19_WrapAndScopeSameParameters ==
  \A c \in Callers :
    (call[c].shape \in {"call", "scope"} /\ (InLoop(c) \/ PastLoop(c))) =>
      LET self == limiters[call[c].lim]
      IN  /\ call[c].consume = self.consume.val
          /\ call[c].key = _get_bucket(self.bucket).key
          /\ call[c].jitter = self.jitter
          /\ call[c].units = self.units.val


====
